---- MODULE Spec2Model ----
(***************************************************************************)
(* Credential aggregation and reconciliation engine of droid-apikey-usage  *)
(* (src/main.ts): the Deno KV credential store, the remote usage fetcher,  *)
(* the server aggregate (/api/data), the dashboard's progressive load and  *)
(* the duplicate resolver.                                                 *)
(*                                                                         *)
(* Strings that the code takes apart (secrets, masked forms) are sequences *)
(* of one-character strings.  A JavaScript value that may be undefined is  *)
(* a sequence of length 0 or 1: Undef is <<>>, the number n is <<n>>.      *)
(* The usedRatio, startDate and endDate fields of a snapshot are copied    *)
(* through by the code and take no part in any decision; they are left out.*)
(***************************************************************************)
EXTENDS Integers, Sequences, FiniteSets, TLC

VARIABLES
    store,      \* Deno KV under the prefix ["apikeys"]: id -> ApiKeyEntry
    now,        \* Date.now() of the server, in ms
    remote,     \* the remote accounting service: secret -> its answer
    log,        \* the lines of the server's latest write to its console
    fcall,      \* one call of fetchApiKeyData: arguments, answer, result
    aggs,       \* the GET /api/data requests being served
    resp,       \* the last response the server has sent
    allData,    \* the dashboard's view (the global allData)
    loads,      \* the running loadData() invocations of the dashboard
    calls,      \* number of remote usage calls dispatched so far
    handlers,   \* request handlers of the server suspended at an await
    refreshes   \* the running refreshSingleKey() invocations of the dashboard

vars == <<store, now, remote, log, fcall, aggs, resp, allData, loads, calls,
         handlers, refreshes>>

----------------------------------------------------------------------------
(* Bounds *)

MaxKeyLen == 9          \* longest secret given to the fetcher on its own
MaxCalls == 8           \* remote calls dispatched in one behaviour
MaxLoads == 2           \* loadData() invocations running at the same time
MaxAggs == 1            \* GET /api/data requests served at the same time
MaxTicks == 1           \* ms the clock advances in one behaviour
MaxKeys == 6            \* credentials in the store of an aggregation
MaxStore == 3           \* credentials in the store the handlers work on
MaxImport == 2          \* entries of one import request
MaxDelete == 2          \* different ids in one batch-delete request
MaxCleanKeys == 3       \* credentials in the store of a cleanup
MaxViewKeys == 2        \* credentials in the store next to a single-key refresh
MaxRefresh == 1         \* refreshSingleKey() invocations running at once
MaxNoteKeys == 2        \* credentials in the store of the note handler
MaxHandlers == 2        \* note updates suspended at their await at once

(* Program constants *)

concurrency == 5
T0 == 1000

----------------------------------------------------------------------------
(* JavaScript helpers *)

Min(a, b) == IF a < b THEN a ELSE b
Max(a, b) == IF a > b THEN a ELSE b

Undef == <<>>
Num(n) == <<n>>

\* x || 0 on a number or undefined
OrZero(x) == IF x = Undef THEN 0 ELSE x[1]

Clamp(i, n) == Max(0, Min(i, n))

\* String.prototype.substring(a, b): both ends clamped to [0, length],
\* swapped when a > b.
Substring(s, a, b) ==
    LET lo == Min(Clamp(a, Len(s)), Clamp(b, Len(s)))
        hi == Max(Clamp(a, Len(s)), Clamp(b, Len(s)))
    IN  SubSeq(s, lo + 1, hi)

Dots == <<".", ".", ".">>

\* `${key.substring(0, 4)}...${key.substring(key.length - 4)}`
MaskedKey(key) ==
    Substring(key, 0, 4) \o Dots \o Substring(key, Len(key) - 4, Len(key))

\* `${key.substring(0, 4)}...`
PrefixKey(key) == Substring(key, 0, 4) \o Dots

----------------------------------------------------------------------------
(* Credential ids and the store's iteration order *)

NoIdx == <<>>

\* `key-${Date.now()}` (single insert) and `key-${Date.now()}-${i}` (import)
SingleId(ms) == [ms |-> ms, idx |-> NoIdx]
ImportId(ms, i) == [ms |-> ms, idx |-> Num(i)]

RECURSIVE Digits(_)
\* the decimal digits of n as character codes ('0' is 48)
Digits(n) == IF n < 10 THEN <<48 + n>> ELSE Digits(n \div 10) \o <<48 + (n % 10)>>

\* the id after its common prefix "key-", as character codes ('-' is 45)
IdChars(id) ==
    Digits(id.ms) \o (IF id.idx = NoIdx THEN <<>> ELSE <<45>> \o Digits(id.idx[1]))

RECURSIVE SeqLess(_, _)
\* byte-wise lexicographic order, the order of Deno KV string key parts
SeqLess(a, b) ==
    IF b = <<>> THEN FALSE
    ELSE IF a = <<>> THEN TRUE
    ELSE IF Head(a) # Head(b) THEN Head(a) < Head(b)
    ELSE SeqLess(Tail(a), Tail(b))

IdLess(a, b) == SeqLess(IdChars(a), IdChars(b))

\* const entry = { id, key, name: name || `Key ${id}`, createdAt: Date.now() }
\* (name and note are free text: the default name is "", no note is Undef)
ApiKeyEntry(id, key, t) ==
    [id |-> id, key |-> key, name |-> "", note |-> Undef, createdAt |-> t]

RECURSIVE SortIds(_)
SortIds(S) ==
    IF S = {} THEN <<>>
    ELSE LET m == CHOOSE x \in S : \A y \in S \ {x} : IdLess(x, y)
         IN  <<m>> \o SortIds(S \ {m})

\* getAllApiKeys(): the entries in kv.list order, that is in key order
getAllApiKeys(st) ==
    LET ids == SortIds(DOMAIN st)
    IN  [i \in 1..Len(ids) |-> st[ids[i]]]

\* getApiKey(id): the entry or null (Undef)
getApiKey(st, id) == IF id \in DOMAIN st THEN <<st[id]>> ELSE Undef

\* kv.set(["apikeys", id], entry)
KvSet(st, id, entry) ==
    [i \in DOMAIN st \cup {id} |-> IF i = id THEN entry ELSE st[i]]

\* kv.delete(["apikeys", id])
KvDelete(st, id) == [i \in DOMAIN st \ {id} |-> st[i]]

EmptyStore == [i \in {} |-> Undef]

----------------------------------------------------------------------------
(* The remote accounting endpoint's answers to one call *)

NetErr == [k |-> "neterr"]
Http(status, body) == [k |-> "http", status |-> status, body |-> body]

Unreadable == [b |-> "unreadable"]      \* reading the body fails
NotJson == [b |-> "text"]               \* a body that is not JSON
JsonNull == [b |-> "null"]              \* the JSON value null
NoUsage == [b |-> "nousage"]            \* an object without usage
NoStandard == [b |-> "nostandard"]      \* usage without standard
Usage(allowance, used) ==
    [b |-> "usage", totalAllowance |-> allowance, orgTotalTokensUsed |-> used]

Statuses == {200, 401, 500}
Amounts == {Undef, Num(0), Num(400), Num(500), Num(1000)}
Bodies ==
    {Unreadable, NotJson, JsonNull, NoUsage, NoStandard}
        \cup {Usage(a, u) : a \in Amounts, u \in Amounts}
Answers == {NetErr} \cup {Http(s, b) : s \in Statuses, b \in Bodies}

\* response.ok
Ok(status) == status >= 200 /\ status <= 299

----------------------------------------------------------------------------
(* fetchApiKeyData *)

NoError == ""
FailedToFetch == "Failed to fetch"
InvalidStructure == "Invalid API response structure"
HttpError(status) ==
    CASE status = 401 -> "HTTP 401"
      [] status = 500 -> "HTTP 500"
      [] OTHER -> "HTTP"

ErrorSnapshot(id, key, e) ==
    [id |-> id, key |-> key, error |-> e,
     orgTotalTokensUsed |-> Undef, totalAllowance |-> Undef]

UsageSnapshot(id, key, body) ==
    [id |-> id, key |-> key, error |-> NoError,
     orgTotalTokensUsed |-> body.orgTotalTokensUsed,
     totalAllowance |-> body.totalAllowance]

\* a line of the server console: the source line that wrote it and the
\* secret-derived text it carries (ids, statuses and fixed text are left out)
LogLine(line, text) == [line |-> line, text |-> text]

\* console.log / console.error of these lines, if any
Wrote(lines) == log' = IF lines = {} THEN log ELSE lines

Return(v, lines) == [t |-> "return", v |-> v, lines |-> lines]
Throw(lines) == [t |-> "throw", lines |-> lines]

\* the try block of fetchApiKeyData
FetchTry(id, key, ans) ==
    IF ans.k = "neterr" THEN Throw({})                       \* fetch rejects
    ELSE IF ~Ok(ans.status) THEN
        IF ans.body = Unreadable THEN Throw({})              \* response.text()
        ELSE Return(ErrorSnapshot(id, PrefixKey(key), HttpError(ans.status)),
                    {LogLine(2988, <<>>)})
    ELSE IF ans.body \in {Unreadable, NotJson} THEN Throw({}) \* response.json()
    ELSE IF ans.body = JsonNull THEN Throw({})               \* null.usage
    ELSE IF ans.body \in {NoUsage, NoStandard} THEN
        Return(ErrorSnapshot(id, PrefixKey(key), InvalidStructure), {})
    ELSE Return(UsageSnapshot(id, MaskedKey(key), ans.body), {})

\* the catch block of fetchApiKeyData
FetchCatch(id, key, r) ==
    Return(ErrorSnapshot(id, PrefixKey(key), FailedToFetch),
           r.lines \cup {LogLine(3020, <<>>)})

\* fetchApiKeyData without its try/catch
fetchApiKeyDataNoCatch(id, key, ans) == FetchTry(id, key, ans)

fetchApiKeyData(id, key, ans) ==
    LET r == FetchTry(id, key, ans)
    IN  IF r.t = "throw" THEN FetchCatch(id, key, r) ELSE r

----------------------------------------------------------------------------
(* Values of the variables while the part they belong to is not running *)

NoData == <<>>                          \* let allData = null
NoResp == [op |-> "none", status |-> 0, body |-> [error |-> ""]]
NoCall == [id |-> SingleId(T0), key |-> <<>>, ans |-> NetErr, ret |-> <<>>]
NoRemote == [s \in {} |-> NetErr]

----------------------------------------------------------------------------
(* getAggregatedData and the GET /api/data handler *)

RECURSIVE SumOrZero(_)
\* reduce((sum, x) => sum + (x || 0), 0)
SumOrZero(seq) ==
    IF seq = <<>> THEN 0 ELSE OrZero(Head(seq)) + SumOrZero(Tail(seq))

Allowances(seq) == [i \in 1..Len(seq) |-> seq[i].totalAllowance]
Useds(seq) == [i \in 1..Len(seq) |-> seq[i].orgTotalTokensUsed]

Filter(seq, P(_)) == SelectSeq(seq, P)

\* results.filter(r => !r.error)
HasNoError(r) == r.error = NoError
validResultsOf(results) == Filter(results, HasNoError)

\* (r.totalAllowance || 0) - (r.orgTotalTokensUsed || 0) > 0
HasBalance(r) == OrZero(r.totalAllowance) - OrZero(r.orgTotalTokensUsed) > 0
keysWithBalanceOf(results) == Filter(validResultsOf(results), HasBalance)

\* totals taken over the keys with a balance instead of the valid results
totalsOfKeysWithBalance(results) ==
    [total_orgTotalTokensUsed |-> SumOrZero(Useds(keysWithBalanceOf(results))),
     total_totalAllowance |-> SumOrZero(Allowances(keysWithBalanceOf(results)))]

\* the reduce of getAggregatedData
totalsOf(results) ==
    [total_orgTotalTokensUsed |-> SumOrZero(Useds(validResultsOf(results))),
     total_totalAllowance |-> SumOrZero(Allowances(validResultsOf(results)))]

\* keyEntries.find(e => e.id === item.id), then console.log(originalEntry.key)
BalanceLines(keyEntries, results) ==
    LET kwb == keysWithBalanceOf(results)
    IN  IF kwb = <<>> THEN {LogLine(3063, <<>>)}
        ELSE {LogLine(3058, keyEntries[j].key) :
                j \in {j \in 1..Len(keyEntries) :
                         \E i \in 1..Len(kwb) :
                            /\ kwb[i].id = keyEntries[j].id
                            /\ \A h \in 1..(j - 1) : keyEntries[h].id # kwb[i].id}}

NoKeysMessage == "No API keys found in storage. Please import keys first."

ErrorResp(op, status, msg) == [op |-> op, status |-> status, body |-> [error |-> msg]]

DataResp(keyEntries, results) ==
    [op |-> "data", status |-> 200,
     body |-> [total_count |-> Len(keyEntries),
               totals |-> totalsOf(results),
               data |-> results]]

Pending == <<>>
Settled(r) == <<r>>

RemoveAt(seq, i) == SubSeq(seq, 1, i - 1) \o SubSeq(seq, i + 1, Len(seq))

PendingIn(slots) == Cardinality({i \in DOMAIN slots : slots[i] = Pending})

\* GET /api/data: getAllApiKeys, the empty check, and the fetchApiKeyData
\* call of every entry, each running up to its await of fetch()
AggStart ==
    /\ Len(aggs) < MaxAggs
    /\ LET keyEntries == getAllApiKeys(store)
       IN  IF Len(keyEntries) = 0
           THEN /\ resp' = ErrorResp("data", 500, NoKeysMessage)
                /\ Wrote({LogLine(3156, <<>>)})
                /\ UNCHANGED <<aggs, calls>>
           ELSE /\ calls + Len(keyEntries) <= MaxCalls
                /\ aggs' = Append(aggs, [keyEntries |-> keyEntries,
                                         results |-> [i \in 1..Len(keyEntries) |-> Pending]])
                /\ calls' = calls + Len(keyEntries)
                /\ UNCHANGED <<resp, log>>
    /\ UNCHANGED <<store, now, remote, fcall, allData, loads,
                   handlers, refreshes>>

\* the remote endpoint answers the call for entry i of aggregation a and
\* fetchApiKeyData runs to its return
AggResolve(a, i) ==
    /\ aggs[a].results[i] = Pending
    /\ LET e == aggs[a].keyEntries[i]
           r == fetchApiKeyData(e.id, e.key, remote[e.key])
       IN  /\ aggs' = [aggs EXCEPT ![a].results[i] = Settled(r)]
           /\ Wrote(r.lines)
    /\ UNCHANGED <<store, now, remote, fcall, resp, allData, loads, calls,
                   handlers, refreshes>>

\* Promise.all settles: the rest of getAggregatedData and the response
AggFinish(a) ==
    /\ PendingIn(aggs[a].results) = 0
    /\ LET keyEntries == aggs[a].keyEntries
           settled == [i \in 1..Len(keyEntries) |-> aggs[a].results[i][1]]
       IN  IF \E i \in 1..Len(settled) : settled[i].t = "throw"
           THEN /\ resp' = ErrorResp("data", 500, FailedToFetch)
                /\ Wrote({LogLine(3156, <<>>)})
           ELSE LET results == [i \in 1..Len(settled) |-> settled[i].v]
                IN  /\ resp' = DataResp(keyEntries, results)
                    /\ Wrote(BalanceLines(keyEntries, results))
    /\ aggs' = RemoveAt(aggs, a)
    /\ UNCHANGED <<store, now, remote, fcall, allData, loads, calls,
                   handlers, refreshes>>

----------------------------------------------------------------------------
(* GET /api/keys and GET /api/keys/{id}/usage *)

\* keys.map(k => ({ id, name, note, createdAt, masked }))
safeKeysOf(st) ==
    LET ks == getAllApiKeys(st)
    IN  [i \in 1..Len(ks) |->
            [id |-> ks[i].id, name |-> ks[i].name, note |-> ks[i].note,
             createdAt |-> ks[i].createdAt, masked |-> MaskedKey(ks[i].key)]]

ProxyResp(status, body) == [status |-> status, body |-> body]
ProxyError == [b |-> "error"]

\* the usage handler once the remote endpoint has answered the call it
\* made with the entry's secret
UsageProxy(ans) ==
    IF ans.k = "neterr" THEN ProxyResp(500, ProxyError)
    ELSE IF ~Ok(ans.status) THEN
        IF ans.body = Unreadable THEN ProxyResp(500, ProxyError)
        ELSE ProxyResp(ans.status, ProxyError)
    ELSE IF ans.body \in {Unreadable, NotJson} THEN ProxyResp(500, ProxyError)
    ELSE ProxyResp(200, ans.body)

\* the usage handler when getApiKey(id) finds nothing: no remote call
KeyNotFound == ProxyResp(404, ProxyError)

----------------------------------------------------------------------------
(* The dashboard: loadData, loadUsageDataProgressively, displayData *)

InvalidResponse == "Invalid response"
NullUsageMessage == "Cannot read properties of null (reading 'usage')"
ClientHttpError(status) ==
    CASE status = 401 -> "HTTP 401"
      [] status = 404 -> "HTTP 404"
      [] status = 500 -> "HTTP 500"
      [] OTHER -> "HTTP"

\* the placeholder loadData shows for a key
Placeholder(k) ==
    [id |-> k.id, key |-> k.masked, note |-> k.note, loading |-> TRUE,
     error |-> NoError, totalAllowance |-> Num(0), orgTotalTokensUsed |-> Num(0)]

\* an error item that keeps the placeholder's loading flag
ErrorItemStillLoading(k, e) ==
    [id |-> k.id, key |-> k.masked, note |-> k.note, loading |-> TRUE,
     error |-> e, totalAllowance |-> Undef, orgTotalTokensUsed |-> Undef]

ErrorItem(k, e) ==
    [id |-> k.id, key |-> k.masked, note |-> k.note, loading |-> FALSE,
     error |-> e, totalAllowance |-> Undef, orgTotalTokensUsed |-> Undef]

UsageItem(k, body) ==
    [id |-> k.id, key |-> k.masked, note |-> k.note, loading |-> FALSE,
     error |-> NoError, totalAllowance |-> body.totalAllowance,
     orgTotalTokensUsed |-> body.orgTotalTokensUsed]

\* the async callback of batch.map in loadUsageDataProgressively, from the
\* response of /api/keys/{id}/usage to its return
batchResultOf(k, pr) ==
    IF ~Ok(pr.status) THEN ErrorItem(k, ClientHttpError(pr.status))
    ELSE IF pr.body = JsonNull THEN ErrorItem(k, NullUsageMessage)
    ELSE IF pr.body \in {NoUsage, NoStandard} THEN ErrorItem(k, InvalidResponse)
    ELSE UsageItem(k, pr.body)

\* allData.data.filter(r => !r.error && !r.loading)
IsCompleted(r) == r.error = NoError /\ ~r.loading
viewTotalsOf(data) ==
    [total_totalAllowance |-> SumOrZero(Allowances(Filter(data, IsCompleted))),
     total_orgTotalTokensUsed |-> SumOrZero(Useds(Filter(data, IsCompleted)))]

\* allData.data.findIndex(item => item.id === id), 0 for -1
FindIndex(data, id) ==
    IF \E i \in 1..Len(data) : data[i].id = id
    THEN CHOOSE i \in 1..Len(data) :
            /\ data[i].id = id
            /\ \A h \in 1..(i - 1) : data[h].id # id
    ELSE 0

\* the results written at their position in the batch instead of by id
WriteBackByPosition(data, batchResults) ==
    [i \in 1..Len(data) |->
        IF i <= Len(batchResults) THEN batchResults[i] ELSE data[i]]

RECURSIVE WriteBack(_, _)
\* batchResults.forEach(result => { ... allData.data[index] = result })
WriteBack(data, batchResults) ==
    IF batchResults = <<>> THEN data
    ELSE LET r == Head(batchResults)
             ix == FindIndex(data, r.id)
         IN  WriteBack(IF ix = 0 THEN data ELSE [data EXCEPT ![ix] = r],
                       Tail(batchResults))

\* the view loadData builds from the key list
placeholdersOf(keys) ==
    [total_count |-> Len(keys),
     totals |-> [total_totalAllowance |-> 0, total_orgTotalTokensUsed |-> 0],
     data |-> [i \in 1..Len(keys) |-> Placeholder(keys[i])]]

InRemote(key) == [st |-> "remote", key |-> key]
Done(r) == [st |-> "done", r |-> r]

\* keys.slice(i, i + concurrency), each key's request sent: the server looks
\* the key up and calls the remote endpoint, or answers 404 at once
batchSlotsOf(st, keys, i) ==
    [j \in 1..Min(concurrency, Len(keys) - i) |->
        LET k == keys[i + j]
        IN  IF k.id \in DOMAIN st THEN InRemote(st[k.id].key)
            ELSE Done(batchResultOf(k, KeyNotFound))]

RemoteIn(slots) == Cardinality({j \in DOMAIN slots : slots[j].st = "remote"})

\* loadData(): fetch('/api/keys') is sent
LoadData ==
    /\ Len(loads) < MaxLoads
    /\ loads' = Append(loads, [pc |-> "listing", keys |-> <<>>, i |-> 0,
                               slots |-> <<>>, results |-> <<>>])
    /\ UNCHANGED <<store, now, remote, log, fcall, aggs, resp, allData, calls,
                   handlers, refreshes>>

\* a key list that is shown without the usage of its credentials being loaded
LoadKeysOnly(l) ==
    /\ loads[l].pc = "listing"
    /\ allData' = placeholdersOf(safeKeysOf(store))
    /\ loads' = RemoveAt(loads, l)
    /\ UNCHANGED <<store, now, remote, log, fcall, aggs, resp, calls,
                   handlers, refreshes>>

\* the key list arrives: the placeholders are shown and
\* loadUsageDataProgressively runs up to the await of its first batch
LoadKeys(l) ==
    /\ loads[l].pc = "listing"
    /\ LET keys == safeKeysOf(store)
           slots == batchSlotsOf(store, keys, 0)
       IN  /\ allData' = placeholdersOf(keys)
           /\ IF Len(keys) = 0
              THEN /\ loads' = RemoveAt(loads, l)
                   /\ UNCHANGED calls
              ELSE /\ calls + RemoteIn(slots) <= MaxCalls
                   /\ loads' = [loads EXCEPT ![l] =
                                   [pc |-> "batch", keys |-> keys, i |-> 0,
                                    slots |-> slots, results |-> <<>>]]
                   /\ calls' = calls + RemoteIn(slots)
    /\ UNCHANGED <<store, now, remote, log, fcall, aggs, resp,
                   handlers, refreshes>>

\* a callback that shows its result in the view as soon as its call resolves
LoadResolveShowing(l, j) ==
    /\ loads[l].pc = "batch"
    /\ loads[l].slots[j].st = "remote"
    /\ LET k == loads[l].keys[loads[l].i + j]
           pr == UsageProxy(remote[loads[l].slots[j].key])
           r == batchResultOf(k, pr)
       IN  /\ loads' = [loads EXCEPT ![l].slots[j] = Done(r)]
           /\ allData' = [allData EXCEPT !.data = WriteBack(allData.data, <<r>>)]
    /\ UNCHANGED <<store, now, remote, log, fcall, aggs, resp, calls,
                   handlers, refreshes>>

\* the remote endpoint answers the call made for slot j of load l; the
\* usage handler responds and the batch callback returns
LoadResolve(l, j) ==
    /\ loads[l].pc = "batch"
    /\ loads[l].slots[j].st = "remote"
    /\ LET k == loads[l].keys[loads[l].i + j]
           pr == UsageProxy(remote[loads[l].slots[j].key])
       IN  loads' = [loads EXCEPT ![l].slots[j] = Done(batchResultOf(k, pr))]
    /\ UNCHANGED <<store, now, remote, log, fcall, aggs, resp, allData, calls,
                   handlers, refreshes>>

\* a batch whose results enter the view while the totals stay as they were
LoadBatchDoneStale(l) ==
    /\ loads[l].pc = "batch"
    /\ RemoteIn(loads[l].slots) = 0
    /\ LET ld == loads[l]
           batchResults == [j \in 1..Len(ld.slots) |-> ld.slots[j].r]
           i == ld.i + concurrency
           slots == batchSlotsOf(store, ld.keys, i)
       IN  /\ allData' = [allData EXCEPT
                                !.data = WriteBack(allData.data, batchResults)]
           /\ IF i < Len(ld.keys)
              THEN /\ calls + RemoteIn(slots) <= MaxCalls
                   /\ loads' = [loads EXCEPT ![l] =
                                   [ld EXCEPT !.i = i, !.slots = slots,
                                              !.results = ld.results \o batchResults]]
                   /\ calls' = calls + RemoteIn(slots)
              ELSE /\ loads' = RemoveAt(loads, l)
                   /\ UNCHANGED calls
    /\ UNCHANGED <<store, now, remote, log, fcall, aggs, resp,
                   handlers, refreshes>>

\* Promise.all(batchPromises) settles: the results are written into
\* allData, the totals recomputed, and the next batch is sent
LoadBatchDone(l) ==
    /\ loads[l].pc = "batch"
    /\ RemoteIn(loads[l].slots) = 0
    /\ LET ld == loads[l]
           batchResults == [j \in 1..Len(ld.slots) |-> ld.slots[j].r]
           data == WriteBack(allData.data, batchResults)
           i == ld.i + concurrency
           slots == batchSlotsOf(store, ld.keys, i)
       IN  /\ allData' = [allData EXCEPT !.data = data,
                                          !.totals = viewTotalsOf(data)]
           /\ IF i < Len(ld.keys)
              THEN /\ calls + RemoteIn(slots) <= MaxCalls
                   /\ loads' = [loads EXCEPT ![l] =
                                   [ld EXCEPT !.i = i, !.slots = slots,
                                              !.results = ld.results \o batchResults]]
                   /\ calls' = calls + RemoteIn(slots)
              ELSE /\ loads' = RemoveAt(loads, l)
                   /\ UNCHANGED calls
    /\ UNCHANGED <<store, now, remote, log, fcall, aggs, resp,
                   handlers, refreshes>>

\* displayData: completedData, validKeysCount, invalidKeysCount
completedDataOf(data) == Filter(data, IsCompleted)
IsValidItem(item) ==
    /\ item.totalAllowance # Undef
    /\ item.orgTotalTokensUsed # Undef
    /\ item.totalAllowance[1] - item.orgTotalTokensUsed[1] > 0
validKeysCountOf(data) == Len(Filter(completedDataOf(data), IsValidItem))
invalidKeysCountOf(data) == Len(completedDataOf(data)) - validKeysCountOf(data)

----------------------------------------------------------------------------
(* The aggregation: the server aggregate and the dashboard's load over a  *)
(* store that does not change meanwhile                                    *)

SecretA == <<"s", "k", "-", "a", "b", "c", "d", "e", "f", "g">>
SecretB == <<"s", "k", "-", "a", "x", "y", "d", "e", "f", "g">>
SecretC == <<"s", "k", "-", "z", "9">>
SecretList == <<SecretA, SecretB, SecretC>>
Secrets == {SecretList[i] : i \in 1..Len(SecretList)}

\* n credentials added one per ms by POST /api/keys
StoreOf(n) ==
    [id \in {SingleId(T0 + i) : i \in 0..(n - 1)} |->
        ApiKeyEntry(id, SecretList[((id.ms - T0) % Len(SecretList)) + 1], id.ms)]

\* the remote service's state: what it answers for each secret
World(a, b, c) ==
    [s \in Secrets |-> IF s = SecretA THEN a ELSE IF s = SecretB THEN b ELSE c]

Worlds ==
    {World(Http(200, Usage(Num(1000), Num(400))),
           Http(200, Usage(Num(500), Num(500))),
           Http(401, NotJson)),
     World(NetErr,
           Http(200, NoUsage),
           Http(200, Usage(Num(0), Num(0)))),
     World(Http(200, Usage(Undef, Num(400))),
           Http(200, NotJson),
           Http(200, Usage(Num(1000), Num(0))))}

InitAgg ==
    /\ store \in {StoreOf(n) : n \in 0..MaxKeys}
    /\ now = T0 + MaxKeys
    /\ remote \in Worlds
    /\ log = {}
    /\ fcall = NoCall
    /\ aggs = <<>>
    /\ resp = NoResp
    /\ allData = NoData
    /\ loads = <<>>
    /\ calls = 0
    /\ handlers = <<>>
    /\ refreshes = <<>>

NextAgg ==
    \/ AggStart
    \/ \E a \in 1..Len(aggs) : \E i \in 1..Len(aggs[a].results) : AggResolve(a, i)
    \/ \E a \in 1..Len(aggs) : AggFinish(a)
    \/ LoadData
    \/ \E l \in 1..Len(loads) : LoadKeys(l)
    \/ \E l \in 1..Len(loads) : \E j \in 1..Len(loads[l].slots) : LoadResolve(l, j)
    \/ \E l \in 1..Len(loads) : LoadBatchDone(l)

SpecAgg == InitAgg /\ [][NextAgg]_vars

\* remote usage calls in flight
InFlight ==
    Cardinality({<<a, i>> \in (1..Len(aggs)) \X (1..(MaxKeys + 1)) :
                        i <= Len(aggs[a].results) /\ aggs[a].results[i] = Pending})
    + Cardinality({<<l, j>> \in (1..Len(loads)) \X (1..concurrency) :
                        j <= Len(loads[l].slots) /\ loads[l].slots[j].st = "remote"})

----------------------------------------------------------------------------
(* The store handlers: insert, import, delete, duplicate scan and clean *)

RECURSIVE Trim(_)
\* String.prototype.trim()
Trim(s) ==
    IF s = <<>> THEN s
    ELSE IF Head(s) = " " THEN Trim(Tail(s))
    ELSE IF s[Len(s)] = " " THEN Trim(SubSeq(s, 1, Len(s) - 1))
    ELSE s

\* a check that finds no secret in the store
checkDuplicateKeyNever(st, key) == FALSE

\* allKeys.some(entry => entry.key === key)
checkDuplicateKey(st, key) == \E id \in DOMAIN st : st[id].key = key

\* the ids of the entries holding the key, in iteration order
IdsWithKey(allKeys, key) ==
    LET hits == Filter(allKeys, LAMBDA e : e.key = key)
    IN  [i \in 1..Len(hits) |-> hits[i].id]

\* findDuplicateKeys() reporting every group, also the ones of a single id
findDuplicateKeysOfAnySize(st) ==
    LET allKeys == getAllApiKeys(st)
        firsts == Filter(allKeys,
                         LAMBDA e : IdsWithKey(allKeys, e.key)[1] = e.id)
    IN  [i \in 1..Len(firsts) |->
            [key |-> MaskedKey(firsts[i].key),
             ids |-> IdsWithKey(allKeys, firsts[i].key),
             count |-> Len(IdsWithKey(allKeys, firsts[i].key))]]

\* findDuplicateKeys(): keyMap keeps the secrets in the order of their first
\* entry; a group is reported for each secret with more than one id
findDuplicateKeys(st) ==
    LET allKeys == getAllApiKeys(st)
        firsts == Filter(allKeys,
                         LAMBDA e : IdsWithKey(allKeys, e.key)[1] = e.id)
        groups == [i \in 1..Len(firsts) |->
                     [key |-> MaskedKey(firsts[i].key),
                      ids |-> IdsWithKey(allKeys, firsts[i].key),
                      count |-> Len(IdsWithKey(allKeys, firsts[i].key))]]
    IN  Filter(groups, LAMBDA g : Len(g.ids) > 1)

RECURSIVE Flatten(_)
Flatten(seqs) == IF seqs = <<>> THEN <<>> ELSE Head(seqs) \o Flatten(Tail(seqs))

\* the inner loop started at i = 0: no member of a group is kept
cleanOrderFromZero(duplicates) ==
    Flatten([g \in 1..Len(duplicates) |-> duplicates[g].ids])

\* the ids the clean handler deletes, in the order of its two loops:
\* for each group, ids[1], ids[2], ... (ids[0] is kept)
cleanOrderOf(duplicates) ==
    Flatten([g \in 1..Len(duplicates) |-> Tail(duplicates[g].ids)])

RECURSIVE DeleteAll(_, _)
DeleteAll(st, ids) ==
    IF ids = <<>> THEN st ELSE DeleteAll(KvDelete(st, Head(ids)), Tail(ids))

RECURSIVE importLoopAborting(_, _, _, _, _)
\* the loop with no try/catch inside: the first store failure is counted
\* and ends the loop
importLoopAborting(keys, i, t, fails, acc) ==
    IF i >= Len(keys) THEN acc
    ELSE LET key == Trim(keys[i + 1])
         IN  IF Len(key) = 0 THEN importLoopAborting(keys, i + 1, t, fails, acc)
             ELSE IF i \in fails THEN [acc EXCEPT !.failed = @ + 1]
             ELSE IF checkDuplicateKey(acc.st, key) THEN
                 importLoopAborting(keys, i + 1, t, fails,
                     [acc EXCEPT !.duplicates = @ + 1,
                                 !.duplicateKeys = Append(@, MaskedKey(key))])
             ELSE importLoopAborting(keys, i + 1, t, fails,
                     [acc EXCEPT !.st = KvSet(@, ImportId(t, i),
                                              ApiKeyEntry(ImportId(t, i), key, t)),
                                 !.success = @ + 1])

RECURSIVE importLoop(_, _, _, _, _)
\* the for loop of batchImportKeys from index i on; fails is the set of
\* indices at which the store throws; acc carries the store, the tally and
\* the lines written
importLoop(keys, i, t, fails, acc) ==
    IF i >= Len(keys) THEN acc
    ELSE LET key == Trim(keys[i + 1])
             next ==
                 IF Len(key) = 0 THEN acc
                 ELSE IF i \in fails THEN
                     [acc EXCEPT !.failed = @ + 1,
                                 !.lines = @ \cup {LogLine(154, <<>>)}]
                 ELSE IF checkDuplicateKey(acc.st, key) THEN
                     [acc EXCEPT !.duplicates = @ + 1,
                                 !.duplicateKeys = Append(@, MaskedKey(key)),
                                 !.lines = @ \cup {LogLine(145, PrefixKey(key))}]
                 ELSE [acc EXCEPT !.st = KvSet(@, ImportId(t, i),
                                               ApiKeyEntry(ImportId(t, i), key, t)),
                                  !.success = @ + 1]
         IN  importLoop(keys, i + 1, t, fails, next)

\* an import whose loop starts at the second entry
batchImportKeysFromSecond(st, keys, t, fails) ==
    importLoop(keys, 1, t, fails,
               [st |-> st, success |-> 0, failed |-> 0, duplicates |-> 0,
                duplicateKeys |-> <<>>, lines |-> {}])

batchImportKeys(st, keys, t, fails) ==
    importLoop(keys, 0, t, fails,
               [st |-> st, success |-> 0, failed |-> 0, duplicates |-> 0,
                duplicateKeys |-> <<>>, lines |-> {}])

OkResp(op, body) == [op |-> op, status |-> 200, body |-> body]

\* the clock moves on
Tick ==
    /\ now < T0 + MaxTicks
    /\ now' = now + 1
    /\ UNCHANGED <<store, remote, log, fcall, aggs, resp, allData, loads, calls,
                   handlers, refreshes>>

\* the values Date.now() can give in saveApiKey once the caller has taken
\* the id's Date.now(): the same millisecond or the next one
CreatedAts == {now, Min(now + 1, T0 + MaxTicks)}

\* POST /api/keys { key }: the id is taken from the clock, then saveApiKey
\* reads the clock again for createdAt; fails says whether kv.set throws
AddKey(key, fails) ==
    /\ Len(key) > 0
    /\ Cardinality(DOMAIN store) < MaxStore
    /\ \E t \in CreatedAts :
        /\ now' = t
        /\ IF fails
           THEN /\ resp' = ErrorResp("add", 500, "kv")
                /\ UNCHANGED store
           ELSE /\ store' = KvSet(store, SingleId(now),
                                  ApiKeyEntry(SingleId(now), key, t))
                /\ resp' = OkResp("add", [id |-> SingleId(now)])
    /\ UNCHANGED <<remote, log, fcall, aggs, allData, loads, calls,
                   handlers, refreshes>>

\* POST /api/keys/import { keys }: fails is the set of indices at which the
\* store throws
ImportKeysWith(keys, fails) ==
    LET r == batchImportKeys(store, keys, now, fails)
    IN  /\ store' = r.st
        /\ Wrote(r.lines)
        /\ resp' = OkResp("import",
                          [success |-> r.success, failed |-> r.failed,
                           duplicates |-> r.duplicates,
                           duplicateKeys |-> r.duplicateKeys])
        /\ UNCHANGED <<now, remote, fcall, aggs, allData, loads, calls,
                       handlers, refreshes>>

ImportKeys(keys) ==
    /\ Cardinality(DOMAIN store) + Len(keys) <= MaxStore
    /\ \E fails \in SUBSET (0..(Len(keys) - 1)) : ImportKeysWith(keys, fails)

\* DELETE /api/keys/{id}: fails says whether kv.delete throws
DeleteKey(id, fails) ==
    /\ IF fails
       THEN /\ resp' = ErrorResp("delete", 500, "kv")
            /\ UNCHANGED store
       ELSE /\ store' = KvDelete(store, id)
            /\ resp' = OkResp("delete", [success |-> TRUE])
    /\ UNCHANGED <<now, remote, log, fcall, aggs, allData, loads, calls,
                   handlers, refreshes>>

\* a scan that also removes what it reports
FindDuplicatesCleaning ==
    /\ resp' = OkResp("duplicates", [duplicates |-> findDuplicateKeys(store)])
    /\ store' = DeleteAll(store, cleanOrderOf(findDuplicateKeys(store)))
    /\ UNCHANGED <<now, remote, log, fcall, aggs, allData, loads, calls,
                   handlers, refreshes>>

\* GET /api/keys/duplicates
FindDuplicates ==
    /\ resp' = OkResp("duplicates", [duplicates |-> findDuplicateKeys(store)])
    /\ UNCHANGED <<store, now, remote, log, fcall, aggs, allData, loads, calls,
                   handlers, refreshes>>

\* POST /api/keys/duplicates/clean: the deletes run one after the other;
\* the first n succeed and, when n is not all of them, the next one throws
\* and the handler answers 500
CleanDuplicates(n) ==
    LET ids == cleanOrderOf(findDuplicateKeys(store))
    IN  /\ n \in 0..Len(ids)
        /\ store' = DeleteAll(store, SubSeq(ids, 1, n))
        /\ resp' = IF n = Len(ids)
                   THEN OkResp("clean", [success |-> TRUE, deletedCount |-> n])
                   ELSE ErrorResp("clean", 500, "kv")
        /\ UNCHANGED <<now, remote, log, fcall, aggs, allData, loads, calls,
                       handlers, refreshes>>

\* the ids of a request at the positions where kv.delete does not throw
\* (fails) or throws
SucceededIds(ids, fails) ==
    LET ix == SelectSeq([i \in 1..Len(ids) |-> i], LAMBDA i : i \notin fails)
    IN  [n \in 1..Len(ix) |-> ids[ix[n]]]
FailedIds(ids, fails) ==
    LET ix == SelectSeq([i \in 1..Len(ids) |-> i], LAMBDA i : i \in fails)
    IN  [n \in 1..Len(ix) |-> ids[ix[n]]]

\* deletes that run one after the other and end at the first that throws
batchDeleteStoreAborting(st, ids, fails) ==
    LET bad == {i \in 1..Len(ids) : i \in fails}
        stop == IF bad = {} THEN Len(ids) + 1
                ELSE CHOOSE i \in bad : \A j \in bad : i <= j
    IN  DeleteAll(st, SubSeq(ids, 1, stop - 1))

\* ids.map(async id => { try { await deleteApiKey(id) ... } catch ... }):
\* the store once every delete has settled
batchDeleteStore(st, ids, fails) == DeleteAll(st, SucceededIds(ids, fails))

\* the body of the batch-delete response
BatchDeleteBody(ids, fails) ==
    [success |-> TRUE,
     deletedCount |-> Len(SucceededIds(ids, fails)),
     totalRequested |-> Len(ids),
     failedIds |-> FailedIds(ids, fails)]

\* POST /api/keys/batch-delete { ids }: fails is the set of positions of
\* the request at which kv.delete throws
BatchDelete(ids, fails) ==
    /\ store' = batchDeleteStore(store, ids, fails)
    /\ resp' = OkResp("batch-delete", BatchDeleteBody(ids, fails))
    /\ Wrote(IF fails = {} THEN {} ELSE {LogLine(3266, <<>>)})
    /\ UNCHANGED <<now, remote, fcall, aggs, allData, loads, calls,
                   handlers, refreshes>>

\* an id no credential of the store has
AbsentId == ImportId(T0, MaxImport)

\* the id lists a client can send: up to MaxDelete different ids, stored
\* ones and one unknown id, and lists that name one id twice
DeleteInputs(st) ==
    {SortIds(S) : S \in {S \in SUBSET (DOMAIN st \cup {AbsentId}) :
                            Cardinality(S) <= MaxDelete}}
        \cup {<<id, id>> : id \in DOMAIN st \cup {AbsentId}}

RawKeys == {SecretA, <<" ">> \o SecretC, <<" ", " ">>}
ImportInputs == UNION {[1..n -> RawKeys] : n \in 1..MaxImport}
StoreIds ==
    {SingleId(t) : t \in T0..(T0 + MaxTicks)}
        \cup {ImportId(t, i) : t \in T0..(T0 + MaxTicks), i \in 0..(MaxImport - 1)}

InitStore ==
    /\ store = EmptyStore
    /\ now = T0
    /\ remote = NoRemote
    /\ log = {}
    /\ fcall = NoCall
    /\ aggs = <<>>
    /\ resp = NoResp
    /\ allData = NoData
    /\ loads = <<>>
    /\ calls = 0
    /\ handlers = <<>>
    /\ refreshes = <<>>

NextStore ==
    \/ Tick
    \/ \E key \in {SecretA, SecretB} : \E fails \in BOOLEAN : AddKey(key, fails)
    \/ \E keys \in ImportInputs : ImportKeys(keys)
    \/ \E id \in StoreIds : \E fails \in BOOLEAN : DeleteKey(id, fails)
    \/ FindDuplicates
    \/ \E n \in 0..MaxStore : CleanDuplicates(n)

SpecStore == InitStore /\ [][NextStore]_vars

----------------------------------------------------------------------------
(* Batch delete by id list on its own: every request against every store  *)

InitDelete ==
    /\ store \in {StoreOf(n) : n \in 0..MaxCleanKeys}
    /\ now = T0 + MaxCleanKeys
    /\ remote = NoRemote
    /\ log = {}
    /\ fcall = NoCall
    /\ aggs = <<>>
    /\ resp = NoResp
    /\ allData = NoData
    /\ loads = <<>>
    /\ calls = 0
    /\ handlers = <<>>
    /\ refreshes = <<>>

NextDelete ==
    \/ \E ids \in DeleteInputs(store) : \E fails \in SUBSET (1..Len(ids)) :
            BatchDelete(ids, fails)
    \/ \E id \in DOMAIN store \cup {AbsentId} : \E fails \in BOOLEAN :
            DeleteKey(id, fails)

SpecDelete == InitDelete /\ [][NextDelete]_vars

----------------------------------------------------------------------------
(* The cleanups: batch delete, the server's zero-balance delete and the   *)
(* dashboard's clearing of invalid keys, next to the dashboard's load     *)

\* response.ok, usageData.usage?.standard present and remaining <= 0
\* (a missing amount gives NaN, and NaN <= 0 is false)
IsZeroAnswer(ans) ==
    /\ ans.k = "http"
    /\ Ok(ans.status)
    /\ ans.body.b = "usage"
    /\ ans.body.totalAllowance # Undef
    /\ ans.body.orgTotalTokensUsed # Undef
    /\ ans.body.totalAllowance[1] - ans.body.orgTotalTokensUsed[1] <= 0

\* the answers at which the inner try block of the balance check throws:
\* fetch rejects, response.json() fails, or usageData is null
CheckThrows(ans) ==
    \/ ans.k = "neterr"
    \/ ans.k = "http" /\ Ok(ans.status) /\ ans.body \in {Unreadable, NotJson, JsonNull}

\* keysToDelete of the zero-balance handler, in the order of allKeys
keysToDeleteOf(st, rem) ==
    LET hits == Filter(getAllApiKeys(st), LAMBDA e : IsZeroAnswer(rem[e.key]))
    IN  [i \in 1..Len(hits) |-> hits[i].id]

\* POST /api/keys/zero-balance/delete: the balance of every key is asked
\* from the remote endpoint, one call after the other, then the keys found
\* are deleted one by one; fails is the set of positions in keysToDelete at
\* which kv.delete throws
ZeroBalanceDelete(fails) ==
    LET allKeys == getAllApiKeys(store)
        keysToDelete == keysToDeleteOf(store, remote)
    IN  /\ calls + Len(allKeys) <= MaxCalls
        /\ fails \subseteq 1..Len(keysToDelete)
        /\ calls' = calls + Len(allKeys)
        /\ store' = batchDeleteStore(store, keysToDelete, fails)
        /\ resp' = OkResp("zero-balance",
                          [success |-> TRUE,
                           deletedCount |-> Len(SucceededIds(keysToDelete, fails)),
                           totalZeroBalance |-> Len(keysToDelete)])
        /\ Wrote((IF \E i \in 1..Len(allKeys) : CheckThrows(remote[allKeys[i].key])
                  THEN {LogLine(3318, <<>>)} ELSE {})
                 \cup (IF fails = {} THEN {} ELSE {LogLine(3329, <<>>)}))
        /\ UNCHANGED <<now, fcall, aggs, allData, loads, remote,
                       handlers, refreshes>>

\* item.error
HasError(item) == item.error # NoError

\* !item.error and item.totalAllowance - item.orgTotalTokensUsed <= 0
IsZeroItem(item) ==
    /\ item.error = NoError
    /\ item.totalAllowance # Undef
    /\ item.orgTotalTokensUsed # Undef
    /\ item.totalAllowance[1] - item.orgTotalTokensUsed[1] <= 0

\* [...failedKeys, ...zeroBalanceKeys].map(item => item.id)
allInvalidIdsOf(data) ==
    LET allInvalidKeys == Filter(data, HasError) \o Filter(data, IsZeroItem)
    IN  [i \in 1..Len(allInvalidKeys) |-> allInvalidKeys[i].id]

\* clearInvalidKeysFromModal(), confirmed by the user: the ids go to
\* /api/keys/batch-delete and, on its answer, loadData() is called;
\* fails is the set of positions at which kv.delete throws
ClearInvalidKeys(fails) ==
    /\ allData # NoData
    /\ Len(loads) < MaxLoads
    /\ LET ids == allInvalidIdsOf(allData.data)
       IN  /\ Len(ids) > 0
           /\ fails \subseteq 1..Len(ids)
           /\ store' = batchDeleteStore(store, ids, fails)
           /\ resp' = OkResp("batch-delete", BatchDeleteBody(ids, fails))
           /\ Wrote(IF fails = {} THEN {} ELSE {LogLine(3266, <<>>)})
    /\ loads' = Append(loads, [pc |-> "listing", keys |-> <<>>, i |-> 0,
                               slots |-> <<>>, results |-> <<>>])
    /\ UNCHANGED <<now, remote, fcall, aggs, allData, calls,
                   handlers, refreshes>>

InitClean ==
    /\ store \in {StoreOf(n) : n \in 0..MaxCleanKeys}
    /\ now = T0 + MaxCleanKeys
    /\ remote \in Worlds
    /\ log = {}
    /\ fcall = NoCall
    /\ aggs = <<>>
    /\ resp = NoResp
    /\ allData = NoData
    /\ loads = <<>>
    /\ calls = 0
    /\ handlers = <<>>
    /\ refreshes = <<>>

NextClean ==
    \/ LoadData
    \/ \E l \in 1..Len(loads) : LoadKeys(l)
    \/ \E l \in 1..Len(loads) : \E j \in 1..Len(loads[l].slots) : LoadResolve(l, j)
    \/ \E l \in 1..Len(loads) : LoadBatchDone(l)
    \/ \E fails \in SUBSET (1..MaxCleanKeys) : ZeroBalanceDelete(fails)
    \/ \E fails \in SUBSET (1..MaxCleanKeys) : ClearInvalidKeys(fails)

SpecClean == InitClean /\ [][NextClean]_vars

----------------------------------------------------------------------------
(* One aggregation run to its end: every response eventually arrives *)

InitLive ==
    /\ store \in {StoreOf(n) : n \in 1..MaxKeys}
    /\ now = T0 + MaxKeys
    /\ remote \in Worlds
    /\ log = {}
    /\ fcall = NoCall
    /\ aggs = <<>>
    /\ resp = NoResp
    /\ allData = NoData
    /\ loads = <<>>
    /\ calls = 0
    /\ handlers = <<>>
    /\ refreshes = <<>>

\* the page loads: DOMContentLoaded calls loadData() once
LoadOnce ==
    /\ allData = NoData
    /\ loads = <<>>
    /\ LoadData

NextLive ==
    \/ LoadOnce
    \/ \E l \in 1..Len(loads) : LoadKeys(l)
    \/ \E l \in 1..Len(loads) : \E j \in 1..Len(loads[l].slots) : LoadResolve(l, j)
    \/ \E l \in 1..Len(loads) : LoadBatchDone(l)

\* LoadKeys(l) can happen: the key list of load l is awaited
KeysDue == \E l \in 1..Len(loads) : loads[l].pc = "listing"

\* LoadBatchDone(l) can happen: every call of the batch of load l has resolved
BatchSettled ==
    \E l \in 1..Len(loads) :
        loads[l].pc = "batch" /\ RemoteIn(loads[l].slots) = 0

\* Weak fairness of the three steps that follow an await: the server answers
\* the key list, every remote call dispatched resolves, and the
\* continuation after Promise.all runs once the batch has settled.  For
\* LoadKeys and LoadBatchDone weak fairness is written out with the state
\* predicate that enables the step (the call budget never binds for a
\* single aggregation).
SpecLive ==
    /\ InitLive
    /\ [][NextLive]_vars
    /\ WF_vars(\E l \in 1..Len(loads) :
                    \E j \in 1..Len(loads[l].slots) : LoadResolve(l, j))
    /\ (<>[]KeysDue => []<><<\E l \in 1..Len(loads) : LoadKeys(l)>>_vars)
    /\ (<>[]BatchSettled => []<><<\E l \in 1..Len(loads) : LoadBatchDone(l)>>_vars)

----------------------------------------------------------------------------
(* The dashboard: refreshSingleKey next to loadData *)

\* allData.data[index] = item; an index one past the end appends (the stores
\* of SpecRefresh lose at most one credential, so no index lies further out)
WriteAt(data, index, item) ==
    IF index <= Len(data) THEN [data EXCEPT ![index] = item]
    ELSE Append(data, item)

\* the items refreshSingleKey writes when the usage response has arrived:
\* none of them has a note (its loading row is the one of loadData)
RefreshErrorItem(id, masked, e) ==
    [id |-> id, key |-> masked, note |-> Undef, loading |-> FALSE,
     error |-> e, totalAllowance |-> Undef, orgTotalTokensUsed |-> Undef]

RefreshUsageItem(k, body) ==
    [id |-> k.id, key |-> k.masked, note |-> Undef, loading |-> FALSE,
     error |-> NoError, totalAllowance |-> body.totalAllowance,
     orgTotalTokensUsed |-> body.orgTotalTokensUsed]

\* refreshSingleKey(keyId) up to its first await: the index of the row is
\* looked up once, then fetch('/api/keys') is sent
RefreshSingleKey(keyId) ==
    /\ allData # NoData
    /\ Len(refreshes) < MaxRefresh
    /\ FindIndex(allData.data, keyId) # 0
    /\ refreshes' = Append(refreshes,
                        [pc |-> "listing", id |-> keyId,
                         index |-> FindIndex(allData.data, keyId),
                         keyInfo |-> <<>>, key |-> <<>>])
    /\ UNCHANGED <<store, now, remote, log, fcall, aggs, resp, allData, loads,
                   calls, handlers>>

\* the key list arrives: without the key the refresh ends; otherwise the row
\* at index becomes a placeholder and the usage request is sent, the server
\* calling the remote endpoint with the entry's secret
RefreshKeys(r) ==
    /\ refreshes[r].pc = "listing"
    /\ LET rf == refreshes[r]
           allKeys == safeKeysOf(store)
       IN  IF \A i \in 1..Len(allKeys) : allKeys[i].id # rf.id
           THEN /\ refreshes' = RemoveAt(refreshes, r)
                /\ UNCHANGED <<allData, calls>>
           ELSE LET keyInfo == allKeys[CHOOSE i \in 1..Len(allKeys) :
                                            allKeys[i].id = rf.id]
                IN  /\ calls < MaxCalls
                    /\ allData' = [allData EXCEPT !.data =
                            WriteAt(allData.data, rf.index,
                                    Placeholder(keyInfo))]
                    /\ refreshes' = [refreshes EXCEPT ![r] =
                            [rf EXCEPT !.pc = "usage", !.keyInfo = keyInfo,
                                       !.key = store[rf.id].key]]
                    /\ calls' = calls + 1
    /\ UNCHANGED <<store, now, remote, log, fcall, aggs, resp, loads, handlers>>

\* the row refreshSingleKey writes once the usage response has arrived, and
\* whether the totals are recomputed with it
RefreshOutcome(rf, pr) ==
    IF ~Ok(pr.status)
    THEN [item |-> RefreshErrorItem(rf.id, rf.keyInfo.masked,
                                    ClientHttpError(pr.status)),
          totals |-> FALSE]
    ELSE IF pr.body = JsonNull
    THEN [item |-> RefreshErrorItem(rf.id, allData.data[rf.index].key,
                                    NullUsageMessage),
          totals |-> FALSE]
    ELSE IF pr.body \in {NoUsage, NoStandard}
    THEN [item |-> RefreshErrorItem(rf.id, rf.keyInfo.masked, InvalidResponse),
          totals |-> FALSE]
    ELSE [item |-> RefreshUsageItem(rf.keyInfo, pr.body), totals |-> TRUE]

\* the remote endpoint answers the call of refresh r: the row at the index
\* taken at the start is overwritten in whatever allData is now; only the
\* success path recomputes the totals.  In the catch block
\* allData.data[index].key throws when the view has no row at index, and
\* nothing is written
RefreshResolve(r) ==
    /\ refreshes[r].pc = "usage"
    /\ LET rf == refreshes[r]
           pr == UsageProxy(remote[rf.key])
       IN  IF Ok(pr.status) /\ pr.body = JsonNull /\ rf.index > Len(allData.data)
           THEN UNCHANGED allData
           ELSE LET out == RefreshOutcome(rf, pr)
                    data == WriteAt(allData.data, rf.index, out.item)
                IN  allData' = [allData EXCEPT
                        !.data = data,
                        !.totals = IF out.totals THEN viewTotalsOf(data)
                                   ELSE allData.totals]
    /\ refreshes' = RemoveAt(refreshes, r)
    /\ UNCHANGED <<store, now, remote, log, fcall, aggs, resp, loads, calls,
                   handlers>>

\* the remote service changes what it answers (a credential is revoked, a
\* balance is used up)
RemoteChanges ==
    /\ remote' \in Worlds \ {remote}
    /\ UNCHANGED <<store, now, log, fcall, aggs, resp, allData, loads, calls,
                   handlers, refreshes>>

InitRefresh ==
    /\ store \in {StoreOf(n) : n \in 1..MaxViewKeys}
    /\ now = T0 + MaxViewKeys
    /\ remote \in Worlds
    /\ log = {}
    /\ fcall = NoCall
    /\ aggs = <<>>
    /\ resp = NoResp
    /\ allData = NoData
    /\ loads = <<>>
    /\ calls = 0
    /\ handlers = <<>>
    /\ refreshes = <<>>

\* a reload is the refresh button, the timer, or the loadData() that follows
\* a delete or an import; a full store loses one credential by
\* DELETE /api/keys/{id}
NextRefresh ==
    \/ loads = <<>> /\ LoadData
    \/ \E l \in 1..Len(loads) : LoadKeys(l)
    \/ \E l \in 1..Len(loads) : \E j \in 1..Len(loads[l].slots) : LoadResolve(l, j)
    \/ \E l \in 1..Len(loads) : LoadBatchDone(l)
    \/ \E id \in DOMAIN store : RefreshSingleKey(id)
    \/ \E r \in 1..Len(refreshes) : RefreshKeys(r)
    \/ \E r \in 1..Len(refreshes) : RefreshResolve(r)
    \/ RemoteChanges
    \/ /\ Cardinality(DOMAIN store) = MaxViewKeys
       /\ \E id \in DOMAIN store : DeleteKey(id, FALSE)

SpecRefresh == InitRefresh /\ [][NextRefresh]_vars

----------------------------------------------------------------------------
(* The note handler: PUT /api/keys/{id}/note next to the deletes *)

\* the note texts a client sends: none, and one text
NoteTexts == {"", "memo"}

\* { ...keyEntry, note: note || undefined }
updatedEntryOf(keyEntry, text) ==
    [keyEntry EXCEPT !.note = IF text = "" THEN Undef ELSE <<text>>]

\* the handler up to its await of kv.set: getApiKey(id) answers, without an
\* entry the response is 404; fails says whether the read throws
NoteRead(id, text, fails) ==
    /\ Len(handlers) < MaxHandlers
    /\ IF fails
       THEN /\ resp' = ErrorResp("note", 500, "kv")
            /\ UNCHANGED handlers
       ELSE IF getApiKey(store, id) = Undef
       THEN /\ resp' = ErrorResp("note", 404, "Key not found")
            /\ UNCHANGED handlers
       ELSE /\ handlers' = Append(handlers,
                                  [op |-> "note", id |-> id, text |-> text,
                                   keyEntry |-> getApiKey(store, id)[1]])
            /\ UNCHANGED resp
    /\ UNCHANGED <<store, now, remote, log, fcall, aggs, allData, loads, calls,
                   refreshes>>

\* a write that builds the entry anew instead of copying the one read
NoteWriteAnew(h, fails) ==
    /\ handlers[h].op = "note"
    /\ IF fails
       THEN /\ resp' = ErrorResp("note", 500, "kv")
            /\ UNCHANGED store
       ELSE /\ store' = KvSet(store, handlers[h].id,
                    updatedEntryOf(ApiKeyEntry(handlers[h].id,
                                               handlers[h].keyEntry.key, now),
                                   handlers[h].text))
            /\ resp' = OkResp("note", [success |-> TRUE, note |-> handlers[h].text])
    /\ handlers' = RemoveAt(handlers, h)
    /\ UNCHANGED <<now, remote, log, fcall, aggs, allData, loads, calls,
                   refreshes>>

\* kv.set(["apikeys", id], updatedEntry) with the entry read before, and the
\* response; fails says whether kv.set throws
NoteWrite(h, fails) ==
    /\ handlers[h].op = "note"
    /\ IF fails
       THEN /\ resp' = ErrorResp("note", 500, "kv")
            /\ UNCHANGED store
       ELSE /\ store' = KvSet(store, handlers[h].id,
                    updatedEntryOf(handlers[h].keyEntry, handlers[h].text))
            /\ resp' = OkResp("note", [success |-> TRUE, note |-> handlers[h].text])
    /\ handlers' = RemoveAt(handlers, h)
    /\ UNCHANGED <<now, remote, log, fcall, aggs, allData, loads, calls,
                   refreshes>>

\* up to MaxNoteKeys credentials with different secrets, or two credentials
\* that hold the same secret
InitNote ==
    /\ store \in {StoreOf(n) : n \in 0..MaxNoteKeys}
            \cup {[id \in {SingleId(T0), SingleId(T0 + 1)} |->
                        ApiKeyEntry(id, SecretA, id.ms)]}
    /\ now = T0 + MaxNoteKeys
    /\ remote = NoRemote
    /\ log = {}
    /\ fcall = NoCall
    /\ aggs = <<>>
    /\ resp = NoResp
    /\ allData = NoData
    /\ loads = <<>>
    /\ calls = 0
    /\ handlers = <<>>
    /\ refreshes = <<>>

NextNote ==
    \/ \E id \in DOMAIN store \cup {AbsentId} : \E text \in NoteTexts :
            \E fails \in BOOLEAN : NoteRead(id, text, fails)
    \/ \E h \in 1..Len(handlers) : \E fails \in BOOLEAN : NoteWrite(h, fails)
    \/ \E id \in DOMAIN store \cup {AbsentId} : \E fails \in BOOLEAN :
            DeleteKey(id, fails)
    \/ \E id \in DOMAIN store : BatchDelete(<<id>>, {})
    \/ CleanDuplicates(Len(cleanOrderOf(findDuplicateKeys(store))))

SpecNote == InitNote /\ [][NextNote]_vars

----------------------------------------------------------------------------
(* Two imports at once: batchImportKeys step by step, from await to await *)

RECURSIVE NextEntry(_, _)
\* the loop of batchImportKeys skips the blank entries without an await:
\* the first index from i on whose entry is not blank, or keys.length
NextEntry(keys, i) ==
    IF i >= Len(keys) THEN Len(keys)
    ELSE IF Len(Trim(keys[i + 1])) > 0 THEN i
    ELSE NextEntry(keys, i + 1)

\* the loop goes on at index i: either it awaits checkDuplicateKey for the
\* next entry that is not blank, or it has ended and the handler responds
ImportGoesOn(hs, h, i, tally) ==
    LET hd == hs[h]
        n == NextEntry(hd.keys, i)
    IN  IF n >= Len(hd.keys)
        THEN /\ handlers' = RemoveAt(hs, h)
             /\ resp' = OkResp("import", tally)
        ELSE /\ handlers' = [hs EXCEPT ![h] =
                                [hd EXCEPT !.pc = "check", !.i = n, !.tally = tally]]
             /\ UNCHANGED resp

\* POST /api/keys/import { keys } up to the first await of batchImportKeys
ImportBegin(keys) ==
    /\ Len(handlers) < MaxHandlers
    /\ Cardinality(DOMAIN store) + Len(keys) <= MaxStore
    /\ LET tally == [success |-> 0, failed |-> 0, duplicates |-> 0,
                     duplicateKeys |-> <<>>]
       IN  ImportGoesOn(Append(handlers,
                               [op |-> "import", keys |-> keys, pc |-> "check",
                                i |-> 0, id |-> ImportId(now, 0),
                                tally |-> tally]),
                        Len(handlers) + 1, 0, tally)
    /\ UNCHANGED <<store, now, remote, log, fcall, aggs, allData, loads, calls,
                   refreshes>>

\* checkDuplicateKey has read the store: a duplicate is counted and the loop
\* goes on; otherwise the id is taken from the clock and saveApiKey awaits
\* kv.set
ImportChecked(h) ==
    /\ handlers[h].op = "import"
    /\ handlers[h].pc = "check"
    /\ LET hd == handlers[h]
           key == Trim(hd.keys[hd.i + 1])
       IN  IF checkDuplicateKey(store, key)
           THEN /\ ImportGoesOn(handlers, h, hd.i + 1,
                        [hd.tally EXCEPT !.duplicates = @ + 1,
                                         !.duplicateKeys = Append(@, MaskedKey(key))])
                /\ Wrote({LogLine(145, PrefixKey(key))})
           ELSE /\ handlers' = [handlers EXCEPT ![h] =
                        [hd EXCEPT !.pc = "save", !.id = ImportId(now, hd.i)]]
                /\ UNCHANGED <<resp, log>>
    /\ UNCHANGED <<store, now, remote, fcall, aggs, allData, loads, calls,
                   refreshes>>

\* kv.set of saveApiKey has written the entry: success++ and the loop goes
\* on (the store operations of this specification do not throw)
ImportSaved(h) ==
    /\ handlers[h].op = "import"
    /\ handlers[h].pc = "save"
    /\ LET hd == handlers[h]
           key == Trim(hd.keys[hd.i + 1])
       IN  /\ store' = KvSet(store, hd.id, ApiKeyEntry(hd.id, key, hd.id.ms))
           /\ ImportGoesOn(handlers, h, hd.i + 1,
                           [hd.tally EXCEPT !.success = @ + 1])
    /\ UNCHANGED <<now, remote, log, fcall, aggs, allData, loads, calls,
                   refreshes>>

NextRace ==
    \/ Tick
    \/ \E keys \in ImportInputs : ImportBegin(keys)
    \/ \E h \in 1..Len(handlers) : ImportChecked(h)
    \/ \E h \in 1..Len(handlers) : ImportSaved(h)

SpecRace == InitStore /\ [][NextRace]_vars

----------------------------------------------------------------------------
(* The fetcher on its own: every secret length against every answer *)

Letters == <<"s", "k", "-", "a", "b", "c", "d", "e", "f", "g", "h", "i">>
FetchKeys == {SubSeq(Letters, 1, n) : n \in 1..MaxKeyLen}

InitFetch ==
    /\ store = EmptyStore
    /\ now = T0
    /\ remote = NoRemote
    /\ log = {}
    /\ fcall \in {[id |-> SingleId(T0), key |-> k, ans |-> a, ret |-> <<>>] :
                    k \in FetchKeys, a \in Answers}
    /\ aggs = <<>>
    /\ resp = NoResp
    /\ allData = NoData
    /\ loads = <<>>
    /\ calls = 0
    /\ handlers = <<>>
    /\ refreshes = <<>>

\* const r = await fetchApiKeyData(id, key)
FetchCall ==
    /\ fcall.ret = <<>>
    /\ LET r == fetchApiKeyData(fcall.id, fcall.key, fcall.ans)
       IN  /\ fcall' = [fcall EXCEPT !.ret = <<r>>]
           /\ Wrote(r.lines)
    /\ UNCHANGED <<store, now, remote, aggs, resp, allData, loads, calls,
                   handlers, refreshes>>

NextFetch == FetchCall

SpecFetch == InitFetch /\ [][NextFetch]_vars

----------------------------------------------------------------------------
(* Claims about the fetcher (SpecFetch) *)

Returned == fcall.ret # <<>>
Result == fcall.ret[1].v

\* the body has the shape { usage: { standard: { numbers } } }
WellShaped(body) ==
    /\ body.b = "usage"
    /\ body.totalAllowance # Undef
    /\ body.orgTotalTokensUsed # Undef

\* C5: a transport exception is classified "Failed to fetch", a non-2xx
\* status by its status code, and every 2xx answer whose body can be read
\* but deviates from the expected shape (unparseable JSON included) is
\* classified "Invalid API response structure"; the three differ.
C5_DistinctClassifications ==
    Returned =>
        /\ fcall.ans.k = "neterr" => Result.error = FailedToFetch
        /\ (fcall.ans.k = "http" /\ ~Ok(fcall.ans.status)
                /\ fcall.ans.body # Unreadable)
            => Result.error = HttpError(fcall.ans.status)
        /\ (fcall.ans.k = "http" /\ Ok(fcall.ans.status)
                /\ fcall.ans.body # Unreadable /\ ~WellShaped(fcall.ans.body))
            => Result.error = InvalidStructure
        /\ FailedToFetch # InvalidStructure
        /\ \A st \in Statuses : HttpError(st) \notin {FailedToFetch, InvalidStructure}

\* the first 4 characters, "...", the last 4 characters
FirstFour(key) == SubSeq(key, 1, Min(4, Len(key)))
LastFour(key) == SubSeq(key, Max(1, Len(key) - 3), Len(key))

\* C9: every result of the fetcher, success or failure, carries the masked
\* form first 4 characters + "..." + last 4 characters of the secret (for
\* the secrets of 8 or more characters the form is defined for).
C9_MaskedOnEveryPath ==
    (Returned /\ Len(fcall.key) >= 8)
        => Result.key = FirstFour(fcall.key) \o Dots \o LastFour(fcall.key)

----------------------------------------------------------------------------
(* Claims about the aggregation (SpecAgg) *)

\* C1: never more than 5 remote usage calls in flight.
C1_AtMostFiveInFlight == InFlight <= concurrency

keyList == getAllApiKeys(store)

IsUsageAnswer(ans) == ans.k = "http" /\ Ok(ans.status) /\ ans.body.b = "usage"

\* the snapshot is the one of credential e: its id, and the remote answer
\* for e's secret decides error or usage
SnapshotOf(r, e) ==
    /\ r.id = e.id
    /\ (r.error = NoError) <=> IsUsageAnswer(remote[e.key])
    /\ r.error = NoError =>
        /\ r.totalAllowance = remote[e.key].body.totalAllowance
        /\ r.orgTotalTokensUsed = remote[e.key].body.orgTotalTokensUsed

DataSent == resp.op = "data" /\ resp.status = 200
Shown == allData # NoData

\* C2: the aggregate returns one snapshot per credential, the i-th being the
\* snapshot of the i-th credential in store order, whatever the order in
\* which the calls completed; the same holds of the dashboard's view, whose
\* i-th entry is the placeholder or the snapshot of the i-th credential.
C2_OneSnapshotPerCredentialInOrder ==
    /\ DataSent =>
        /\ Len(resp.body.data) = Len(keyList)
        /\ \A i \in 1..Len(keyList) : SnapshotOf(resp.body.data[i], keyList[i])
    /\ Shown =>
        /\ Len(allData.data) = Len(keyList)
        /\ \A i \in 1..Len(keyList) :
            IF allData.data[i].loading
            THEN allData.data[i].id = keyList[i].id
            ELSE SnapshotOf(allData.data[i], keyList[i])

C2_Witness ==
    /\ DataSent
    /\ Len(resp.body.data) >= 3
    /\ Shown
    /\ Len(allData.data) >= 3
    /\ \A i \in 1..Len(allData.data) : ~allData.data[i].loading
    /\ \E i \in 1..Len(allData.data) : allData.data[i].error # NoError
    /\ \E i \in 1..Len(allData.data) : allData.data[i].error = NoError

\* sum over the snapshots without an error; an undefined amount counts 0
SumOfClean(data, Amount(_)) ==
    LET f[n \in 0..Len(data)] ==
            IF n = 0 THEN 0
            ELSE f[n - 1] + (IF data[n].error # NoError \/ Amount(data[n]) = Undef
                             THEN 0 ELSE Amount(data[n])[1])
    IN  f[Len(data)]

TotalsRight(view) ==
    /\ view.totals.total_totalAllowance
            = SumOfClean(view.data, LAMBDA r : r.totalAllowance)
    /\ view.totals.total_orgTotalTokensUsed
            = SumOfClean(view.data, LAMBDA r : r.orgTotalTokensUsed)
    /\ view.total_count = Len(view.data)

\* C3: the totals are the sums of totalAllowance and orgTotalTokensUsed over
\* exactly the snapshots without an error; snapshots with an error add 0 and
\* are still listed.
C3_TotalsOverCleanSnapshots ==
    /\ DataSent => TotalsRight(resp.body)
    /\ Shown => TotalsRight(allData)

\* A 1000/400, B 500/500, C HTTP 401: totals 1500/900, three listed
C3_Witness ==
    /\ DataSent
    /\ Len(resp.body.data) = 3
    /\ resp.body.totals.total_totalAllowance = 1500
    /\ resp.body.totals.total_orgTotalTokensUsed = 900
    /\ \E i \in 1..3 : resp.body.data[i].error = "HTTP 401"
    /\ Shown
    /\ allData.totals.total_totalAllowance = 1500
    /\ allData.totals.total_orgTotalTokensUsed = 900

\* C4: the fetcher returns a tagged result for every answer and never
\* throws, so an aggregation over a non-empty store is never aborted: it
\* answers 200 and lists the failing credentials with an error next to the
\* others.
C4_FailuresDoNotAbort ==
    /\ \A a \in 1..Len(aggs) : \A i \in 1..Len(aggs[a].results) :
            aggs[a].results[i] # Pending => aggs[a].results[i][1].t = "return"
    /\ (resp.op = "data" /\ resp.status # 200) => store = EmptyStore
    /\ DataSent =>
        /\ Len(resp.body.data) = Len(keyList)
        /\ \A i \in 1..Len(keyList) :
            ~IsUsageAnswer(remote[keyList[i].key])
                => resp.body.data[i].error # NoError

C4_Witness ==
    /\ DataSent
    /\ \E i \in 1..Len(resp.body.data) : resp.body.data[i].error = FailedToFetch
    /\ \E i \in 1..Len(resp.body.data) : resp.body.data[i].error = InvalidStructure
    /\ \E i \in 1..Len(resp.body.data) : resp.body.data[i].error = NoError

\* C6: with no credential in the store an aggregation never produces a view:
\* neither a 200 response of /api/data nor a dashboard view with an empty
\* snapshot list.
C6_NoEmptyView ==
    store = EmptyStore => ~DataSent /\ ~Shown

\* the classes of displayData
IsLoading(x) == x.loading
IsFailed(x) == x.error # NoError
IsValid(x) == ~x.loading /\ x.error = NoError /\ IsValidItem(x)
IsZero(x) == ~x.loading /\ x.error = NoError /\ ~IsValidItem(x)

InClasses(x) ==
    Cardinality({c \in {"valid", "zero", "failed"} :
                    \/ c = "valid" /\ IsValid(x)
                    \/ c = "zero" /\ IsZero(x)
                    \/ c = "failed" /\ IsFailed(x)})

CountOf(data, P(_)) == Cardinality({i \in 1..Len(data) : P(data[i])})

C8_NoRawSecret ==
    /\ \A l \in log : \A id \in DOMAIN store : l.text # store[id].key
    /\ DataSent =>
        \A i \in 1..Len(resp.body.data) : \A id \in DOMAIN store :
            resp.body.data[i].key # store[id].key

----------------------------------------------------------------------------
(* Claims about the store handlers (SpecStore) *)

HoldersOf(st, key) == {id \in DOMAIN st : st[id].key = key}
KeysOf(st) == {st[id].key : id \in DOMAIN st}

CleanSucceeds ==
    /\ resp'.op = "clean"
    /\ resp'.status = 200
    /\ \E n \in 0..MaxStore : CleanDuplicates(n)

\* C10: a clean that answers success leaves exactly one credential for every
\* secret that had two or more, deletes no credential whose secret was
\* unique, creates none, and findDuplicateKeys then reports no group.
C10_CleanLeavesOnePerSecret ==
    [][CleanSucceeds =>
        /\ \A key \in KeysOf(store) :
            /\ Cardinality(HoldersOf(store', key)) = 1
            /\ Cardinality(HoldersOf(store, key)) = 1
                => HoldersOf(store', key) = HoldersOf(store, key)
        /\ \A id \in DOMAIN store' : id \in DOMAIN store /\ store'[id] = store[id]
        /\ findDuplicateKeys(store') = <<>>]_vars

C10_Witness ==
    /\ resp.op = "clean"
    /\ resp.status = 200
    /\ resp.body.deletedCount >= 2
    /\ Cardinality(DOMAIN store) >= 1

\* the members of the groups a clean finds, by secret
GroupKeys(st) == {key \in KeysOf(st) : Cardinality(HoldersOf(st, key)) >= 2}

\* C11: after a clean that answers success, the member kept of every
\* duplicate group is one created no later than every other member of the
\* group (smallest createdAt).
C11_SurvivorIsEarliestCreated ==
    [][CleanSucceeds =>
        \A key \in GroupKeys(store) :
            \A s \in HoldersOf(store', key) : \A m \in HoldersOf(store, key) :
                store[s].createdAt <= store[m].createdAt]_vars

CleanStep == resp'.op = "clean" /\ \E n \in 0..MaxStore : CleanDuplicates(n)

\* the ids a clean has to delete: every member of a group but the first
NonCanonical(st) ==
    {id \in DOMAIN st :
        \E i \in 1..Len(cleanOrderOf(findDuplicateKeys(st))) :
            cleanOrderOf(findDuplicateKeys(st))[i] = id}

\* C12: a clean answers with a count whatever its deletes do, and at most
\* the members whose own delete failed are left: the count and the members
\* left add up to the members that had to go.
C12_FailingDeleteDoesNotBlock ==
    [][CleanStep =>
        /\ resp'.status = 200
        /\ resp'.body.deletedCount
             = Cardinality(NonCanonical(store) \ DOMAIN store')]_vars

\* the ids of a reported group, as a set
IdSetOf(g) == {g.ids[i] : i \in 1..Len(g.ids)}

\* what the last duplicate scan reported, or nothing
Reported == IF resp.op = "duplicates" THEN resp.body.duplicates ELSE <<>>

\* C13: the groups of a duplicate scan are the secrets held by two or more
\* credentials: one group per such secret and no other group, its ids the
\* holders of the secret in store order, each once, count their number, and
\* no id in two groups.  (Every handler that changes the store overwrites
\* the response, so a reported scan is a scan of the present store.)
C13_GroupsAreExactSecretClasses ==
    resp.op = "duplicates" =>
        /\ \A key \in KeysOf(store) :
              Cardinality(HoldersOf(store, key)) >= 2
                <=> \E g \in 1..Len(Reported) :
                        IdSetOf(Reported[g]) = HoldersOf(store, key)
        /\ \A g \in 1..Len(Reported) :
              /\ \E key \in KeysOf(store) :
                    IdSetOf(Reported[g]) = HoldersOf(store, key)
              /\ Len(Reported[g].ids) >= 2
              /\ Reported[g].count = Len(Reported[g].ids)
              /\ \A i, j \in 1..Len(Reported[g].ids) :
                    i < j => IdLess(Reported[g].ids[i], Reported[g].ids[j])
        /\ \A g, h \in 1..Len(Reported) :
              g # h => IdSetOf(Reported[g]) \cap IdSetOf(Reported[h]) = {}

C13_Witness ==
    /\ resp.op = "duplicates"
    /\ Len(Reported) = 1
    /\ Reported[1].count = 2
    /\ \E id \in DOMAIN store \ IdSetOf(Reported[1]) :
            MaskedKey(store[id].key) = Reported[1].key

ScanStep == resp'.op = "duplicates" /\ FindDuplicates

ImportStepOf(keys, fails) ==
    /\ resp'.op = "import"
    /\ Cardinality(DOMAIN store) + Len(keys) <= MaxStore
    /\ ImportKeysWith(keys, fails)

FailSets == SUBSET (0..(MaxImport - 1))

\* the credentials of st that are the same in st2
KeptIn(st, st2) == {id \in DOMAIN st \cap DOMAIN st2 : st2[id] = st[id]}

\* the entries of an input that are not blank, did not hit a store failure
\* and whose secret a credential held through the whole call
HeldEntries(keys, fails) ==
    {i \in 0..(Len(keys) - 1) :
        /\ i \notin fails
        /\ Trim(keys[i + 1]) # <<>>
        /\ HoldersOf(store, Trim(keys[i + 1])) \cap KeptIn(store, store') # {}}

\* C15: an import stores nothing for an entry whose trimmed secret is
\* already held: a credential written by the import is afterwards the only
\* holder of its secret; an entry whose secret is held by a stored
\* credential adds no holder, is counted in duplicates and its masked form
\* is recorded; duplicateKeys has one element per counted duplicate.
C15_ImportSkipsHeldSecrets ==
    [][resp'.op = "import" => \A keys \in ImportInputs : \A fails \in FailSets :
        ImportStepOf(keys, fails) =>
            /\ \A id \in DOMAIN store' \ KeptIn(store, store') :
                  HoldersOf(store', store'[id].key) = {id}
            /\ Len(resp'.body.duplicateKeys) = resp'.body.duplicates
            /\ resp'.body.duplicates >= Cardinality(HeldEntries(keys, fails))
            /\ \A i \in HeldEntries(keys, fails) :
                  /\ HoldersOf(store', Trim(keys[i + 1]))
                        \subseteq HoldersOf(store, Trim(keys[i + 1]))
                  /\ \E d \in 1..Len(resp'.body.duplicateKeys) :
                        resp'.body.duplicateKeys[d] = MaskedKey(Trim(keys[i + 1]))]_vars

\* an import of a stored secret and of the same new secret twice
C15_Witness ==
    /\ resp.op = "import"
    /\ resp.body.duplicates = 2
    /\ resp.body.success = 0
    /\ Cardinality(DOMAIN store) >= 1

\* the indices of the entries of an input that are not blank
NonBlank(keys) == {i \in 0..(Len(keys) - 1) : Trim(keys[i + 1]) # <<>>}

\* the non-blank entries are pairwise distinct secrets that the store does
\* not hold
AllNew(keys) ==
    /\ \A i, j \in NonBlank(keys) : i # j => Trim(keys[i + 1]) # Trim(keys[j + 1])
    /\ \A i \in NonBlank(keys) : Trim(keys[i + 1]) \notin KeysOf(store)

\* C16: an import of n pairwise distinct new secrets and some blank
\* entries, with no store failure, answers success = n, failed = 0,
\* duplicates = 0, and the store then holds exactly n more credentials, one
\* for each new secret, next to all it held before.
C16_ImportOfNewSecrets ==
    [][resp'.op = "import" => \A keys \in ImportInputs :
        ImportStepOf(keys, {}) /\ AllNew(keys) =>
            /\ resp'.body.success = Cardinality(NonBlank(keys))
            /\ resp'.body.failed = 0
            /\ resp'.body.duplicates = 0
            /\ Cardinality(DOMAIN store')
                 = Cardinality(DOMAIN store) + Cardinality(NonBlank(keys))
            /\ KeptIn(store, store') = DOMAIN store
            /\ \A i \in NonBlank(keys) :
                  Cardinality(HoldersOf(store', Trim(keys[i + 1]))) = 1]_vars

\* a step of POST /api/keys that answers success
AddSucceeds ==
    /\ resp'.op = "add"
    /\ resp'.status = 200
    /\ \E key \in Secrets : AddKey(key, FALSE)

ImportStep ==
    /\ resp'.op = "import"
    /\ \E keys \in ImportInputs : ImportKeys(keys)

\* C17: an insert that reports success writes under an id no stored
\* credential has: a single insert adds one credential, an import adds as
\* many as it counts in success, and every credential stored before is
\* still there unchanged.
C17_InsertNeverOverwrites ==
    [][/\ AddSucceeds =>
            /\ Cardinality(DOMAIN store') = Cardinality(DOMAIN store) + 1
            /\ KeptIn(store, store') = DOMAIN store
       /\ ImportStep =>
            /\ Cardinality(DOMAIN store')
                 = Cardinality(DOMAIN store) + resp'.body.success
            /\ KeptIn(store, store') = DOMAIN store]_vars

\* the entries of an input that an import has written: a credential with
\* the entry's trimmed secret under the id of the entry's index
StoredEntries(keys) ==
    {i \in NonBlank(keys) :
        /\ ImportId(now, i) \in DOMAIN store' \ KeptIn(store, store')
        /\ store'[ImportId(now, i)].key = Trim(keys[i + 1])}

\* C18: an import answers a tally whatever the store does: the entries at
\* which the store threw are counted in failed and nowhere else, and every
\* other entry that is not blank, before or after a failure, is processed,
\* that is stored and counted in success or counted in duplicates.
C18_ImportSurvivesStoreFailures ==
    [][resp'.op = "import" => \A keys \in ImportInputs : \A fails \in FailSets :
        ImportStepOf(keys, fails) =>
            /\ resp'.status = 200
            /\ resp'.body.failed = Cardinality(NonBlank(keys) \cap fails)
            /\ resp'.body.success = Cardinality(StoredEntries(keys))
            /\ StoredEntries(keys) \cap fails = {}
            /\ resp'.body.success + resp'.body.failed + resp'.body.duplicates
                 = Cardinality(NonBlank(keys))]_vars

\* the store threw at the first entry and the second one was stored
C18_Witness ==
    /\ resp.op = "import"
    /\ resp.body.failed = 1
    /\ resp.body.success = 1
    /\ ImportId(now, 1) \in DOMAIN store
    /\ ImportId(now, 0) \notin DOMAIN store

IdsIn(seq) == {seq[i] : i \in 1..Len(seq)}

\* C19: a batch delete answers success with deletedCount + |failedIds| =
\* the number of requested ids; failedIds are the ids whose delete threw;
\* every id whose delete did not throw is gone from the store, also when
\* another delete of the request threw; no other credential is touched.
C19_BatchDeletePartitionsRequest ==
    [][resp'.op = "batch-delete" =>
        \A ids \in DeleteInputs(store) : \A fails \in SUBSET (1..Len(ids)) :
            BatchDelete(ids, fails) =>
                /\ resp'.status = 200
                /\ resp'.body.deletedCount + Len(resp'.body.failedIds) = Len(ids)
                /\ Len(resp'.body.failedIds) = Cardinality(fails)
                /\ IdsIn(resp'.body.failedIds) = {ids[i] : i \in fails}
                /\ \A i \in (1..Len(ids)) \ fails : ids[i] \notin DOMAIN store'
                /\ \A id \in DOMAIN store \ {ids[i] : i \in (1..Len(ids)) \ fails} :
                      id \in KeptIn(store, store')]_vars

\* one delete of a request threw and another one removed a credential
C19_Witness ==
    /\ resp.op = "batch-delete"
    /\ resp.body.deletedCount = 1
    /\ Len(resp.body.failedIds) = 1
    /\ resp.body.failedIds[1] \in DOMAIN store
    /\ Cardinality(DOMAIN store) >= 2

\* the class the aggregator gives a credential: what fetchApiKeyData
\* returns for it, split as getAggregatedData splits its results
ClassOf(e, rem) ==
    LET r == fetchApiKeyData(e.id, e.key, rem[e.key]).v
    IN  IF r.error # NoError THEN "invalid"
        ELSE IF HasBalance(r) THEN "valid"
        ELSE "zero"

\* zero-or-negative balance or invalid/unreachable
CleanupTargets(st, rem) == {id \in DOMAIN st : ClassOf(st[id], rem) # "valid"}

ServerCleanup ==
    /\ resp'.op = "zero-balance"
    /\ \E fails \in SUBSET (1..MaxCleanKeys) : ZeroBalanceDelete(fails)

DashboardCleanup ==
    /\ resp'.op = "batch-delete"
    /\ \E fails \in SUBSET (1..MaxCleanKeys) : ClearInvalidKeys(fails)

\* C20: a cleanup, the server's or the dashboard's, deletes no credential
\* the aggregator classifies valid, and when none of its deletes fails it
\* deletes every credential classified zero-or-negative or invalid.
C20_CleanupDeletesExactlyTheTargets ==
    [][/\ ServerCleanup =>
            /\ (DOMAIN store \ DOMAIN store') \subseteq CleanupTargets(store, remote)
            /\ resp'.body.deletedCount = resp'.body.totalZeroBalance
                  => DOMAIN store' = DOMAIN store \ CleanupTargets(store, remote)
       /\ DashboardCleanup =>
            /\ (DOMAIN store \ DOMAIN store') \subseteq CleanupTargets(store, remote)
            /\ resp'.body.failedIds = <<>>
                  => DOMAIN store' = DOMAIN store \ CleanupTargets(store, remote)]_vars

----------------------------------------------------------------------------
(* Progressive aggregation: batches in sequence *)

\* the positions of the view that the running batch of a load covers
BatchPositions(ld) == (ld.i + 1)..(ld.i + Len(ld.slots))

\* C21: within one aggregation the batches run strictly in sequence: a call
\* that resolves changes nothing in the view and dispatches nothing; the
\* batch settles only when every one of its calls has resolved, and only
\* then its results enter the view, all in the same step, and the calls of
\* the next batch are dispatched.
C21_BatchesInSequence ==
    [][ /\ \A l \in 1..Len(loads) : \A j \in 1..Len(loads[l].slots) :
            LoadResolve(l, j) => allData' = allData /\ calls' = calls
        /\ \A l \in 1..Len(loads) :
            LoadBatchDone(l) =>
                /\ \A j \in 1..Len(loads[l].slots) : loads[l].slots[j].st = "done"
                /\ Len(loads[l].results) = loads[l].i
                /\ \A p \in 1..Len(allData.data) :
                    IF p \in BatchPositions(loads[l])
                    THEN allData'.data[p] = loads[l].slots[p - loads[l].i].r
                    ELSE allData'.data[p] = allData.data[p]
                /\ calls' > calls =>
                    \E m \in 1..Len(loads') :
                        /\ loads'[m].i = loads[l].i + concurrency
                        /\ loads'[m].results
                            = loads[l].results
                              \o [j \in 1..Len(loads[l].slots) |-> loads[l].slots[j].r]
      ]_vars

\* six credentials: the first five are shown resolved, the sixth is still
\* loading while its call, the only one of the second batch, is in flight
C21_Witness ==
    /\ Len(loads) = 1
    /\ loads[1].pc = "batch"
    /\ loads[1].i = concurrency
    /\ loads[1].slots[1].st = "remote"
    /\ Len(allData.data) = concurrency + 1
    /\ \A p \in 1..concurrency : ~allData.data[p].loading
    /\ allData.data[concurrency + 1].loading

\* the credentials the view shows with a result, by position
ResolvedIn(view) == {p \in 1..Len(view.data) : ~view.data[p].loading}

\* C22: during a progressive aggregation, each time a batch settles the
\* partial totals are the sums over the entries without an error (the
\* placeholders still loading and the failed entries add 0), and as long
\* as no new aggregation replaces the view, an entry shown with a result
\* keeps its place and never goes back to loading.
C22_PartialTotalsAndGrowth ==
    [][ /\ \A l \in 1..Len(loads) :
            LoadBatchDone(l) =>
                /\ TotalsRight(allData')
                /\ ResolvedIn(allData) \cup BatchPositions(loads[l])
                        = ResolvedIn(allData')
        /\ (allData # NoData /\ ~\E l \in 1..Len(loads) : LoadKeys(l)) =>
                /\ ResolvedIn(allData) \subseteq ResolvedIn(allData')
                /\ \A p \in 1..Len(allData.data) :
                        allData'.data[p].id = allData.data[p].id
      ]_vars

\* six credentials, the first batch settled: the view shows the sums of
\* the first five (A 1000/400 and B 500/500 among them) and the sixth
\* is still loading
C22_Witness ==
    /\ Len(loads) = 1
    /\ loads[1].pc = "batch"
    /\ loads[1].i = concurrency
    /\ ResolvedIn(allData) = 1..concurrency
    /\ allData.totals.total_totalAllowance > 0
    /\ allData.totals.total_orgTotalTokensUsed > 0
    /\ \E p \in 1..concurrency : allData.data[p].error # NoError

\* the aggregation is over: no load is running, the view holds one entry
\* per credential of the store, in store order, each the result of the one
\* call made for it, none loading, and as many calls were dispatched as
\* there are credentials
Completed ==
    /\ loads = <<>>
    /\ allData # NoData
    /\ Len(allData.data) = Len(keyList)
    /\ \A p \in 1..Len(keyList) :
        /\ ~allData.data[p].loading
        /\ allData.data[p]
            = batchResultOf(safeKeysOf(store)[p], UsageProxy(remote[keyList[p].key]))
    /\ calls = Len(keyList)

\* C23: if every dispatched remote call eventually resolves, an aggregation
\* over a non-empty store eventually completes: every batch is dispatched,
\* every credential listed ends with a resolved entry, none is left loading,
\* and exactly one call was made per credential (no retry, none dropped).
C23_AggregationCompletes == (loads # <<>>) ~> Completed

\* six credentials, two batches, all resolved with six calls
C23_Witness ==
    /\ Completed
    /\ Len(allData.data) = concurrency + 1
    /\ calls = concurrency + 1

----------------------------------------------------------------------------
(* Single-key refresh *)

\* the totals shown are the sums over the rows without an error
SumsRight(view) ==
    /\ view.totals.total_totalAllowance
            = SumOfClean(view.data, LAMBDA r : r.totalAllowance)
    /\ view.totals.total_orgTotalTokensUsed
            = SumOfClean(view.data, LAMBDA r : r.orgTotalTokensUsed)

\* C24: when refreshSingleKey finishes, whatever its outcome, the totals of
\* the view are the sums over the rows currently without an error.
C24_RefreshKeepsTotals ==
    [][ \A r \in 1..Len(refreshes) :
            (refreshes[r].pc = "usage" /\ loads = <<>> /\ RefreshResolve(r))
                => SumsRight(allData')
      ]_vars

\* the ids of the rows of the view, in order
RowIds(view) == [p \in 1..Len(view.data) |-> view.data[p].id]

\* C28: whatever a reload does in between, a step of refreshSingleKey that
\* writes a row leaves the ids of the rows as they are: it writes over the
\* row of its own credential only and adds no row.
C28_RefreshWritesItsOwnRow ==
    [][ \A r \in 1..Len(refreshes) :
            (RefreshKeys(r) \/ RefreshResolve(r))
                => RowIds(allData') = RowIds(allData)
      ]_vars

----------------------------------------------------------------------------
(* Note updates *)

\* C25: credentials come into existence through insert and import only: a
\* note update for an id the store does not hold answers 404 and writes
\* nothing, and no step of a note update or a delete, however they
\* interleave, adds a credential to the store.
C25_NoteUpdateCreatesNothing ==
    [][ /\ \A text \in NoteTexts :
            (getApiKey(store, AbsentId) = Undef /\ NoteRead(AbsentId, text, FALSE))
                => (resp'.status = 404 /\ store' = store /\ handlers' = handlers)
        /\ DOMAIN store' \subseteq DOMAIN store
      ]_vars

\* C26: a successful note update of a stored credential changes only that
\* credential's note, to the text given or to none when the text is empty:
\* id, secret, name and creation time stay, and so does every other entry.
C26_NoteUpdateChangesOnlyTheNote ==
    [][ \A h \in 1..Len(handlers) :
            (handlers[h].id \in DOMAIN store /\ NoteWrite(h, FALSE)) =>
                LET id == handlers[h].id
                IN  /\ DOMAIN store' = DOMAIN store
                    /\ \A i \in DOMAIN store \ {id} : store'[i] = store[i]
                    /\ store'[id].id = store[id].id
                    /\ store'[id].key = store[id].key
                    /\ store'[id].name = store[id].name
                    /\ store'[id].createdAt = store[id].createdAt
                    /\ store'[id].note
                        = (IF handlers[h].text = "" THEN Undef
                           ELSE <<handlers[h].text>>)
                    /\ resp' = OkResp("note", [success |-> TRUE,
                                               note |-> handlers[h].text])
      ]_vars

\* one of two credentials has got a note, the other has none
C26_Witness ==
    /\ resp.op = "note"
    /\ resp.status = 200
    /\ resp.body.note = "memo"
    /\ Cardinality(DOMAIN store) = 2
    /\ \E i \in DOMAIN store : store[i].note = <<"memo">>
    /\ \E i \in DOMAIN store : store[i].note = Undef

----------------------------------------------------------------------------
(* Cleanup from the dashboard while a load is running *)

\* the ids of the rows the view shows as still loading
LoadingIds(view) ==
    {view.data[p].id : p \in {q \in 1..Len(view.data) : view.data[q].loading}}

\* C27: the dashboard cleanup never deletes a credential whose usage has
\* not resolved yet: no row shown as loading is among the credentials it
\* removes from the store.
C27_CleanupSparesLoadingRows ==
    [][ DashboardCleanup =>
            LoadingIds(allData) \cap (DOMAIN store \ DOMAIN store') = {}
      ]_vars

----------------------------------------------------------------------------
(* The tally of an import *)

\* the entry consists of blanks only
IsBlankEntry(raw) == \A c \in 1..Len(raw) : raw[c] = " "

\* C29: for every input of an import the tally accounts for each entry that
\* is not blank exactly once: success + failed + duplicates is the number
\* of entries with a character other than a blank, and duplicateKeys has
\* as many elements as duplicates counts.
C29_TallyAccountsForEveryEntry ==
    [][resp'.op = "import" => \A keys \in ImportInputs : \A fails \in FailSets :
        ImportStepOf(keys, fails) =>
            /\ resp'.body.success + resp'.body.failed + resp'.body.duplicates
                 = Cardinality({i \in 1..Len(keys) : ~IsBlankEntry(keys[i])})
            /\ Len(resp'.body.duplicateKeys) = resp'.body.duplicates
            /\ resp'.body.success >= 0
            /\ resp'.body.failed >= 0
            /\ resp'.body.duplicates >= 0]_vars

\* one entry stored and one skipped as a duplicate by the same import
C29_Witness ==
    /\ resp.op = "import"
    /\ resp.body.success = 1
    /\ resp.body.duplicates = 1
    /\ resp.body.failed = 0
    /\ Len(resp.body.duplicateKeys) = 1

----------------------------------------------------------------------------
(* Imports running at the same time *)

\* C30: duplicate skipping holds when two imports run at the same time:
\* starting from an empty store, whatever the imports and however their
\* steps interleave, no secret is held by more than one credential.
C30_OneHolderPerImportedSecret ==
    \A id1, id2 \in DOMAIN store :
        store[id1].key = store[id2].key => id1 = id2

====
